---- MODULE Spec2Model ----
(***************************************************************************)
(* A model of src/main.py: the four FastAPI request handlers               *)
(* (generate_code, plan_infrastructure, apply_infrastructure,              *)
(* configure_database), the helpers they call (fetch_instance_ips,         *)
(* create_temp_pem_file), the files under OUTPUT_DIR, the temporary        *)
(* credential files and the process environment.                           *)
(*                                                                         *)
(* Text is modelled as a sequence of chunks; a file is the sequence of     *)
(* chunks on disk.  A handler is a coroutine without any await, so one     *)
(* server process runs it to completion before it accepts the next         *)
(* request (Spec).  Several server processes share OUTPUT_DIR and          *)
(* interleave at the granularity of file operations (SpecWorkers).         *)
(***************************************************************************)
EXTENDS Integers, Sequences, FiniteSets, TLC

\* ------------------------------------------------------------ bounds
NumWorkers == 2
MaxRequests == 2

\* ------------------------------------------------------------ constants of the program
MaxAttempts == 5
SleepInterval == 15
AnsibleTimeout == 3600
StatusOK == 200
StatusError == 500

Workers == 1..NumWorkers
\* the process of a one-process server
MainWorker == CHOOSE w \in Workers : \A v \in Workers : w <= v

TerraformFile == "output/main.tf"
AnsibleFile == "output/setup.yml"
InventoryFile == "output/inventory.ini"
FileNames == {TerraformFile, AnsibleFile, InventoryFile}

\* ------------------------------------------------------------ text
Max(a, b) == IF a >= b THEN a ELSE b

DigitChars == <<"0", "1", "2", "3", "4", "5", "6", "7", "8", "9">>

\* str(n) of a natural number, one chunk per digit
RECURSIVE StrNat(_)
StrNat(n) == IF n < 10 THEN <<DigitChars[n + 1]>>
             ELSE StrNat(n \div 10) \o <<DigitChars[(n % 10) + 1]>>

\* S occurs in T as a contiguous run of chunks (Python's "S in T")
Contains(T, S) ==
    \E i \in 0..(Len(T) - Len(S)) : \A j \in 1..Len(S) : T[i + j] = S[j]

\* Optional values: None is <<>>, a present value x is <<x>>
None == <<>>
Some(x) == <<x>>

\* f"{v}" of an optional string
FormatOpt(v) == IF v = None THEN "None" ELSE v[1]

\* dict.get(key, default)
Get(d, key, default) == IF key \in DOMAIN d THEN d[key] ELSE default

\* ------------------------------------------------------------ files
\* open(path, "w"): the file is truncated to zero length
OpenTruncate(fs, path) == [fs EXCEPT ![path] = <<>>]

\* mutant: the write replaces the file as a whole, as an atomic rename would
OverlayReplace(old, text) == text

\* close() of a handle opened with "w" after one buffered write of text: the
\* buffer is flushed at the handle's own offset 0, over whatever the file holds
Overlay(old, text) ==
    [i \in 1..Max(Len(old), Len(text)) |->
        IF i <= Len(text) THEN text[i] ELSE old[i]]

FlushClose(fs, path, text) == [fs EXCEPT ![path] = Overlay(fs[path], text)]

\* ------------------------------------------------------------ exceptions
\* mutant: the exception's text carries the status and not the detail
StrHTTPExceptionStatusOnly(status_code, detail) ==
    StrNat(status_code) \o <<": ", "Internal Server Error">>

\* str(e) of HTTPException(status_code=..., detail=...)
StrHTTPException(status_code, detail) == StrNat(status_code) \o <<": ">> \o detail

IOErrorText == <<"[Errno 13] Permission denied">>
OSErrorText == <<"[Errno 2] No such file or directory">>
CalledProcessErrorText == <<"Command returned non-zero exit status 1.">>
TimeoutExpiredText == <<"Command timed out after ">> \o StrNat(AnsibleTimeout) \o <<" seconds">>
ClientErrorText == <<"An error occurred (AuthFailure) when calling the DescribeInstances operation">>

ExhaustedMsg == <<"Failed to fetch instance IPs">>
TimeoutMsg == <<"Ansible playbook execution timed out">>

\* ------------------------------------------------------------ variables
VARIABLES
    pc,        \* per process: the handler's position
    req,       \* per process: the running handler's locals and its response
    obs,       \* per process: what the running request has done so far
    files,     \* the files under OUTPUT_DIR
    tmpfiles,  \* the temporary credential files, by name 1, 2, ...
    env,       \* per process: os.environ["ANSIBLE_PRIVATE_KEY_FILE"] (0: unset)
    handled    \* requests accepted so far

vars == <<pc, req, obs, files, tmpfiles, env, handled>>

NoReq ==
    [kind |-> "none", config |-> <<>>, status |-> 0, detail |-> <<>>,
     output |-> <<>>, attempt |-> 0, instance_ips |-> <<>>,
     primary_ips |-> <<>>, replica_ips |-> <<>>,
     private_key_content |-> <<>>, private_key_path |-> 0]

NoObs ==
    [outcome |-> "none", rc |-> 0, stderr |-> <<>>,
     queries |-> 0, sleeps |-> 0, slept |-> 0,
     everPrimary |-> FALSE, everReplica |-> FALSE, everBoth |-> FALSE,
     queryRaised |-> FALSE, raced |-> FALSE, failedSeen |-> {}, succAt |-> 0,
     succResult |-> <<>>, lastResp |-> <<>>, exhausted |-> FALSE,
     invOpened |-> FALSE, invOpenFailed |-> FALSE, invWritten |-> FALSE,
     credFailed |-> FALSE, pemFailed |-> FALSE, credCreated |-> FALSE,
     envAtStart |-> 0, filesAtStart |-> <<>>]

Init ==
    /\ pc = [w \in Workers |-> "idle"]
    /\ req = [w \in Workers |-> NoReq]
    /\ obs = [w \in Workers |-> NoObs]
    /\ files = [f \in FileNames |-> <<>>]
    /\ tmpfiles = <<>>
    /\ env = [w \in Workers |-> 0]
    /\ handled = 0

\* ------------------------------------------------------------ responses
\* raise HTTPException(status_code=500, detail=d) leaving the handler
Respond500(w, d) ==
    /\ pc' = [pc EXCEPT ![w] = "done"]
    /\ req' = [req EXCEPT ![w].status = StatusError, ![w].detail = d]

\* a request arrives at an idle process
Accept(w, k, c) ==
    /\ pc[w] \in {"idle", "done"}
    /\ handled < MaxRequests
    /\ handled' = handled + 1
    /\ req' = [req EXCEPT ![w] = [NoReq EXCEPT !.kind = k, !.config = c]]
    /\ obs' = [obs EXCEPT ![w] = [NoObs EXCEPT !.envAtStart = env[w],
                                               !.filesAtStart = files]]
    /\ UNCHANGED <<files, tmpfiles, env>>

\* ------------------------------------------------------------ generate_code
\* the request bodies drawn: no key, one key, both interpolated keys
Configs ==
    { <<>>,
      [num_replicas |-> 10],
      [instance_type |-> "t3.large", num_replicas |-> 2] }

\* the f-string of the declaration: fixed text around instance_type (twice)
\* and num_replicas; postgres_version, max_connections and shared_buffers are
\* read from the request and never used
terraform_config(config) ==
    LET instance_type == Get(config, "instance_type", "t2.micro")
        num_replicas == Get(config, "num_replicas", 1)
    IN  <<"resource aws_key_pair postgres_key; resource aws_instance postgres_primary: instance_type = ">>
        \o <<instance_type>>
        \o <<"; tags Name = PostgresPrimary; resource aws_instance postgres_replicas: count = ">>
        \o StrNat(num_replicas)
        \o <<"; instance_type = ">>
        \o <<instance_type>>
        \o <<"; tags Name = PostgresReplica-${count.index + 1}">>

\* the playbook text interpolates nothing from the request
ansible_playbook == <<"- name: Setup PostgreSQL replication", "hosts: all", "tasks">>

ReceiveGenerate(w) ==
    /\ \E c \in Configs : Accept(w, "generate", c)
    /\ pc' = [pc EXCEPT ![w] = "gen_open_tf"]

\* with open(terraform_file, "w") as tf_file
GenOpenTf(w) ==
    /\ pc[w] = "gen_open_tf"
    /\ \E ok \in BOOLEAN :
        IF ok
        THEN /\ files' = OpenTruncate(files, TerraformFile)
             /\ pc' = [pc EXCEPT ![w] = "gen_write_tf"]
             /\ obs' = [obs EXCEPT ![w].raced =
                          @ \/ \E v \in Workers \ {w} : pc[v] = "gen_write_tf"]
             /\ UNCHANGED req
        ELSE /\ Respond500(w, IOErrorText)
             /\ UNCHANGED <<files, obs>>
    /\ UNCHANGED <<tmpfiles, env, handled>>

\* tf_file.write(terraform_config) and the close at the end of the with block
GenWriteTf(w) ==
    /\ pc[w] = "gen_write_tf"
    /\ files' = FlushClose(files, TerraformFile, terraform_config(req[w].config))
    /\ pc' = [pc EXCEPT ![w] = "gen_open_ans"]
    /\ UNCHANGED <<req, obs, tmpfiles, env, handled>>

\* with open(ansible_file, "w") as ans_file
GenOpenAns(w) ==
    /\ pc[w] = "gen_open_ans"
    /\ \E ok \in BOOLEAN :
        IF ok
        THEN /\ files' = OpenTruncate(files, AnsibleFile)
             /\ pc' = [pc EXCEPT ![w] = "gen_write_ans"]
             /\ UNCHANGED req
        ELSE /\ Respond500(w, IOErrorText)
             /\ UNCHANGED files
    /\ UNCHANGED <<obs, tmpfiles, env, handled>>

\* ans_file.write(ansible_playbook), the close, and the return
GenWriteAns(w) ==
    /\ pc[w] = "gen_write_ans"
    /\ files' = FlushClose(files, AnsibleFile, ansible_playbook)
    /\ pc' = [pc EXCEPT ![w] = "done"]
    /\ req' = [req EXCEPT ![w].status = StatusOK,
                          ![w].output = <<"Terraform and Ansible configurations generated successfully">>]
    /\ UNCHANGED <<obs, tmpfiles, env, handled>>

generate_code(w) ==
    \/ ReceiveGenerate(w)
    \/ GenOpenTf(w)
    \/ GenWriteTf(w)
    \/ GenOpenAns(w)
    \/ GenWriteAns(w)

\* ------------------------------------------------------------ subprocesses
\* what subprocess.run(..., capture_output=True, text=True) can end with: a
\* completed process (returncode, stdout, stderr, and how long it ran) or an
\* exception of its own (the binary is missing)
ToolRuns ==
    { [raised |-> FALSE, returncode |-> 0, stdout |-> <<"ok">>, stderr |-> <<>>, duration |-> 1],
      [raised |-> FALSE, returncode |-> 1, stdout |-> <<>>, stderr |-> <<"no credentials">>, duration |-> 1],
      [raised |-> FALSE, returncode |-> 2, stdout |-> <<"partial">>, stderr |-> <<"Error: ", "init required">>, duration |-> 1],
      [raised |-> FALSE, returncode |-> 0, stdout |-> <<"ok">>, stderr |-> <<>>, duration |-> AnsibleTimeout + 1],
      [raised |-> FALSE, returncode |-> 1, stdout |-> <<>>, stderr |-> <<"unreachable">>, duration |-> AnsibleTimeout + 1],
      [raised |-> TRUE, returncode |-> 0, stdout |-> <<>>, stderr |-> <<>>, duration |-> 1] }

\* the runs of a subprocess started without a timeout
UntimedRuns == {r \in ToolRuns : r.duration <= AnsibleTimeout}

\* the handler's except clause "except Exception as e": detail=str(e)
CatchAll(w, text) == Respond500(w, text)

\* ------------------------------------------------------------ plan_infrastructure
ReceivePlan(w) ==
    /\ Accept(w, "plan", <<>>)
    /\ pc' = [pc EXCEPT ![w] = "plan_run"]

\* subprocess.run(["terraform", "plan"]), the returncode test and the return
PlanRun(w) ==
    /\ pc[w] = "plan_run"
    /\ \E result \in UntimedRuns :
        /\ obs' = [obs EXCEPT ![w].outcome =
                        IF result.raised THEN "raised"
                        ELSE IF result.returncode # 0 THEN "nonzero" ELSE "ok",
                      ![w].rc = result.returncode,
                      ![w].stderr = result.stderr]
        /\ IF result.raised
           THEN CatchAll(w, OSErrorText)
           ELSE IF result.returncode # 0
           THEN CatchAll(w, StrHTTPException(StatusError, result.stderr))
           ELSE /\ pc' = [pc EXCEPT ![w] = "done"]
                /\ req' = [req EXCEPT ![w].status = StatusOK,
                                      ![w].output = <<"Terraform plan successful">> \o result.stdout]
    /\ UNCHANGED <<files, tmpfiles, env, handled>>

plan_infrastructure(w) ==
    \/ ReceivePlan(w)
    \/ PlanRun(w)

\* ------------------------------------------------------------ configure_database
\* mutant: the catch-all clause comes first and also takes TimeoutExpired
ConfigureErrorDetailCatchAll(result) ==
    IF result.raised THEN OSErrorText
    ELSE IF result.duration > AnsibleTimeout THEN TimeoutExpiredText
    ELSE StrHTTPException(StatusError, result.stderr)

\* the detail of the HTTP 500 raised for a run of ansible-playbook that did not
\* return 0: TimeoutExpired has its own except clause, ahead of the catch-all
ConfigureErrorDetail(result) ==
    IF result.raised THEN OSErrorText
    ELSE IF result.duration > AnsibleTimeout THEN TimeoutMsg
    ELSE StrHTTPException(StatusError, result.stderr)

ReceiveConfigure(w) ==
    /\ Accept(w, "configure", <<>>)
    /\ pc' = [pc EXCEPT ![w] = "conf_run"]

\* subprocess.run(["ansible-playbook", ...], timeout=3600) and what follows
ConfRun(w) ==
    /\ pc[w] = "conf_run"
    /\ \E result \in ToolRuns :
        /\ obs' = [obs EXCEPT ![w].outcome =
                        IF result.raised THEN "raised"
                        ELSE IF result.duration > AnsibleTimeout THEN "timeout"
                        ELSE IF result.returncode # 0 THEN "nonzero" ELSE "ok",
                      ![w].rc = result.returncode,
                      ![w].stderr = result.stderr]
        /\ IF result.raised \/ result.duration > AnsibleTimeout \/ result.returncode # 0
           THEN Respond500(w, ConfigureErrorDetail(result))
           ELSE /\ pc' = [pc EXCEPT ![w] = "done"]
                /\ req' = [req EXCEPT ![w].status = StatusOK,
                                      ![w].output = <<"Database configuration successful">> \o result.stdout]
    /\ UNCHANGED <<files, tmpfiles, env, handled>>

configure_database(w) ==
    \/ ReceiveConfigure(w)
    \/ ConfRun(w)

\* ------------------------------------------------------------ the cloud provider
\* instances as describe_instances reports them; every one passes the request's
\* filters (tag Name is "PostgresPrimary" or starts with "PostgresReplica",
\* state running).  PublicIpAddress is optional.
Inst(id, ip, name) ==
    [InstanceId |-> id, PublicIpAddress |-> ip,
     Tags |-> << [Key |-> "Name", Value |-> name] >>]

InstP1 == Inst("i-p1", Some("10.0.0.1"), <<"PostgresPrimary">>)
InstR1 == Inst("i-r1", Some("10.0.0.2"), <<"PostgresReplica", "-1">>)
InstP2 == Inst("i-p2", None, <<"PostgresPrimary">>)
InstR2 == Inst("i-r2", None, <<"PostgresReplica", "-2">>)
InstPR == Inst("i-pr", Some("10.0.0.5"), <<"PostgresReplica", "-", "postgresprimary">>)

\* instances['Reservations']: a list of reservations, each a list of instances
DescribeResponses ==
    { <<>>,
      << <<InstP1>> >>,
      << <<InstR1>> >>,
      << <<InstP1>>, <<InstR1>> >>,
      << <<InstP2, InstR2>> >>,
      << <<InstR1, InstR2>>, <<InstP2>> >>,
      << <<InstPR>> >> }

\* str.lower(), chunk by chunk
LowerChunk(c) ==
    CASE c = "PostgresPrimary" -> "postgresprimary"
      [] c = "PostgresReplica" -> "postgresreplica"
      [] c = "Name" -> "name"
      [] OTHER -> c

Lower(text) == [i \in 1..Len(text) |-> LowerChunk(text[i])]

\* {tag['Key']: tag['Value'] for tag in instance.get('Tags', [])}: a later tag
\* with the same key replaces an earlier one
TagsDict(taglist) ==
    [k \in {taglist[i].Key : i \in 1..Len(taglist)} |->
        LET last == CHOOSE i \in 1..Len(taglist) :
                        /\ taglist[i].Key = k
                        /\ \A j \in (i + 1)..Len(taglist) : taglist[j].Key # k
        IN  taglist[last].Value]

RECURSIVE Flatten(_)
Flatten(reservations) ==
    IF reservations = <<>> THEN <<>>
    ELSE Head(reservations) \o Flatten(Tail(reservations))

\* one appended record of fetch_instance_ips
InstanceInfo(instance) ==
    [id |-> instance.InstanceId,
     ip |-> instance.PublicIpAddress,
     username |-> "ubuntu",
     tags |-> TagsDict(instance.Tags)]

\* mutant: instances without a public address are left out
FetchWithPublicIpOnly(reservations) ==
    LET all == Flatten(reservations)
        RECURSIVE Keep(_)
        Keep(i) == IF i > Len(all) THEN <<>>
                   ELSE IF all[i].PublicIpAddress # None
                        THEN <<InstanceInfo(all[i])>> \o Keep(i + 1) ELSE Keep(i + 1)
    IN  Keep(1)

\* fetch_instance_ips(): one record per instance of every reservation, in order,
\* whether or not the instance has a public address
fetch_instance_ips(reservations) ==
    LET all == Flatten(reservations)
    IN  [i \in 1..Len(all) |-> InstanceInfo(all[i])]

\* 'postgresprimary' in info['tags'].get('Name', '').lower()
IsPrimaryInfo(info) ==
    Contains(Lower(Get(info.tags, "Name", <<>>)), <<"postgresprimary">>)

\* mutant: the name is compared without lower()
IsReplicaInfoCaseSensitive(info) ==
    Contains(Get(info.tags, "Name", <<>>), <<"postgresreplica">>)

\* 'postgresreplica' in info['tags'].get('Name', '').lower()
IsReplicaInfo(info) ==
    Contains(Lower(Get(info.tags, "Name", <<>>)), <<"postgresreplica">>)

FilterPrimary(instance_ips) == SelectSeq(instance_ips, IsPrimaryInfo)
FilterReplica(instance_ips) == SelectSeq(instance_ips, IsReplicaInfo)

\* mutant: two replicas are asked for
DiscoveryNeedsTwoReplicas(primary_ips, replica_ips) ==
    Len(primary_ips) >= 1 /\ Len(replica_ips) >= 2

\* mutant: "or" in place of "and"
DiscoveryEitherRole(primary_ips, replica_ips) ==
    Len(primary_ips) >= 1 \/ Len(replica_ips) >= 1

\* if len(primary_ips) >= 1 and len(replica_ips) >= 1
DiscoverySucceeded(primary_ips, replica_ips) ==
    Len(primary_ips) >= 1 /\ Len(replica_ips) >= 1

\* ------------------------------------------------------------ the inventory
\* mutant: the instance id is formatted in place of the address
InventoryLineById(info) ==
    <<info.username, "@", info.id, " ansible_python_interpreter=/usr/bin/python3">>

\* f"{info['username']}@{info['ip']} ansible_python_interpreter=/usr/bin/python3\n"
InventoryLine(info) ==
    <<info.username, "@", FormatOpt(info.ip), " ansible_python_interpreter=/usr/bin/python3">>

\* the text written to inventory.ini, one element per line
InventoryText(primary_ips, replica_ips) ==
    << <<"[primary]">> >>
    \o [i \in 1..Len(primary_ips) |-> InventoryLine(primary_ips[i])]
    \o << <<"[replica]">> >>
    \o [i \in 1..Len(replica_ips) |-> InventoryLine(replica_ips[i])]
    \o << <<>>, <<"[all:vars]">>, <<"replication_password=rep">> >>

\* mutant: the exception is swallowed and a name returned for a file never made
CreateTempPemFileSwallow(ok, pem_content, tmp) ==
    IF ok
    THEN [raised |-> FALSE, name |-> Len(tmp) + 1, tmp |-> Append(tmp, pem_content)]
    ELSE [raised |-> FALSE, name |-> Len(tmp) + 1, tmp |-> tmp]

\* create_temp_pem_file(pem_content): a new file, named after the number of
\* temporary files made so far, or the exception re-raised
create_temp_pem_file(ok, pem_content, tmp) ==
    IF ok
    THEN [raised |-> FALSE, name |-> Len(tmp) + 1, tmp |-> Append(tmp, pem_content)]
    ELSE [raised |-> TRUE, name |-> 0, tmp |-> tmp]

\* ------------------------------------------------------------ what a response shows
\* the instances of a response that carry a role, by their Name tag
RoleNames(reservations, role) ==
    LET all == Flatten(reservations)
    IN  {i \in 1..Len(all) :
            \E t \in 1..Len(all[i].Tags) :
                /\ all[i].Tags[t].Key = "Name"
                /\ \E c \in 1..Len(all[i].Tags[t].Value) :
                      LowerChunk(all[i].Tags[t].Value[c]) = role}

HasPrimary(reservations) == RoleNames(reservations, "postgresprimary") # {}
HasReplica(reservations) == RoleNames(reservations, "postgresreplica") # {}
IdsOf(reservations) ==
    LET all == Flatten(reservations) IN {all[i].InstanceId : i \in 1..Len(all)}

\* ------------------------------------------------------------ apply_infrastructure
ReceiveApply(w) ==
    /\ Accept(w, "apply", <<>>)
    /\ pc' = [pc EXCEPT ![w] = "apply_run"]

\* subprocess.run(["terraform", "apply", "-auto-approve"]) and the returncode test
ApplyRun(w) ==
    /\ pc[w] = "apply_run"
    /\ \E result \in UntimedRuns :
        /\ obs' = [obs EXCEPT ![w].outcome =
                        IF result.raised THEN "raised"
                        ELSE IF result.returncode # 0 THEN "nonzero" ELSE "ok",
                      ![w].rc = result.returncode,
                      ![w].stderr = result.stderr]
        /\ IF result.raised
           THEN CatchAll(w, OSErrorText)
           ELSE IF result.returncode # 0
           THEN CatchAll(w, StrHTTPException(StatusError, result.stderr))
           ELSE /\ pc' = [pc EXCEPT ![w] = "query"]
                /\ UNCHANGED req
    /\ UNCHANGED <<files, tmpfiles, env, handled>>

\* one pass of the loop body up to the test: fetch_instance_ips(), the two
\* filters, and the test of the success condition
Query(w) ==
    /\ pc[w] = "query"
    /\ req[w].attempt < MaxAttempts
    /\ \/ \E resp \in DescribeResponses :
            LET ips == fetch_instance_ips(resp)
                prim == FilterPrimary(ips)
                repl == FilterReplica(ips)
                found == DiscoverySucceeded(prim, repl)
            IN  /\ req' = [req EXCEPT ![w].instance_ips = ips,
                                      ![w].primary_ips = prim,
                                      ![w].replica_ips = repl]
                /\ pc' = [pc EXCEPT ![w] = IF found THEN "inv_open" ELSE "sleep"]
                /\ obs' = [obs EXCEPT
                        ![w].queries = @ + 1,
                        ![w].everPrimary = @ \/ HasPrimary(resp),
                        ![w].everReplica = @ \/ HasReplica(resp),
                        ![w].everBoth = @ \/ (HasPrimary(resp) /\ HasReplica(resp)),
                        ![w].failedSeen = IF found THEN @ ELSE @ \cup IdsOf(resp),
                        ![w].succAt = IF found THEN req[w].attempt + 1 ELSE @,
                        ![w].succResult = IF found THEN resp ELSE @,
                        ![w].lastResp = resp]
       \/ /\ CatchAll(w, ClientErrorText)
          /\ obs' = [obs EXCEPT ![w].queries = @ + 1, ![w].queryRaised = TRUE]
    /\ UNCHANGED <<files, tmpfiles, env, handled>>

\* time.sleep(15) at the end of the loop body, and the loop's next iteration
Sleep(w) ==
    /\ pc[w] = "sleep"
    /\ obs' = [obs EXCEPT ![w].sleeps = @ + 1, ![w].slept = @ + SleepInterval]
    /\ req' = [req EXCEPT ![w].attempt = @ + 1]
    /\ pc' = [pc EXCEPT ![w] =
                IF req[w].attempt + 1 < MaxAttempts THEN "query" ELSE "exhausted"]
    /\ UNCHANGED <<files, tmpfiles, env, handled>>

\* after the loop: raise HTTPException(500, "Failed to fetch instance IPs"),
\* which the handler's own catch-all catches and wraps
Exhausted(w) ==
    /\ pc[w] = "exhausted"
    /\ CatchAll(w, StrHTTPException(StatusError, ExhaustedMsg))
    /\ obs' = [obs EXCEPT ![w].exhausted = TRUE]
    /\ UNCHANGED <<files, tmpfiles, env, handled>>

\* with open(inventory_file, "w") as inv_file
InvOpen(w) ==
    /\ pc[w] = "inv_open"
    /\ \E ok \in BOOLEAN :
        IF ok
        THEN /\ files' = OpenTruncate(files, InventoryFile)
             /\ pc' = [pc EXCEPT ![w] = "inv_write"]
             /\ obs' = [obs EXCEPT ![w].invOpened = TRUE]
             /\ UNCHANGED req
        ELSE /\ CatchAll(w, IOErrorText)
             /\ obs' = [obs EXCEPT ![w].invOpenFailed = TRUE]
             /\ UNCHANGED files
    /\ UNCHANGED <<tmpfiles, env, handled>>

\* the inv_file.write calls and the close at the end of the with block
InvWrite(w) ==
    /\ pc[w] = "inv_write"
    /\ files' = FlushClose(files, InventoryFile,
                           InventoryText(req[w].primary_ips, req[w].replica_ips))
    /\ obs' = [obs EXCEPT ![w].invWritten = TRUE]
    /\ pc' = [pc EXCEPT ![w] = "cred_output"]
    /\ UNCHANGED <<req, tmpfiles, env, handled>>

\* subprocess.check_output(["terraform", "output", "-raw", "private_key"])
CredOutput(w) ==
    /\ pc[w] = "cred_output"
    /\ \E result \in UntimedRuns :
        IF result.raised
        THEN /\ CatchAll(w, OSErrorText)
             /\ obs' = [obs EXCEPT ![w].credFailed = TRUE]
        ELSE IF result.returncode # 0
        THEN /\ CatchAll(w, CalledProcessErrorText)
             /\ obs' = [obs EXCEPT ![w].credFailed = TRUE]
        ELSE /\ req' = [req EXCEPT ![w].private_key_content = result.stdout]
             /\ pc' = [pc EXCEPT ![w] = "cred_pem"]
             /\ UNCHANGED obs
    /\ UNCHANGED <<files, tmpfiles, env, handled>>

\* private_key_path = create_temp_pem_file(private_key_content)
CredPem(w) ==
    /\ pc[w] = "cred_pem"
    /\ \E ok \in BOOLEAN :
        LET made == create_temp_pem_file(ok, req[w].private_key_content, tmpfiles)
        IN  /\ tmpfiles' = made.tmp
            /\ obs' = [obs EXCEPT ![w].credCreated = Len(made.tmp) > Len(tmpfiles),
                                  ![w].pemFailed = ~ok]
            /\ IF made.raised
               THEN CatchAll(w, IOErrorText)
               ELSE /\ req' = [req EXCEPT ![w].private_key_path = made.name]
                    /\ pc' = [pc EXCEPT ![w] = "set_env"]
    /\ UNCHANGED <<files, env, handled>>

\* os.environ["ANSIBLE_PRIVATE_KEY_FILE"] = private_key_path, and the return
SetEnv(w) ==
    /\ pc[w] = "set_env"
    /\ env' = [env EXCEPT ![w] = req[w].private_key_path]
    /\ pc' = [pc EXCEPT ![w] = "done"]
    /\ req' = [req EXCEPT ![w].status = StatusOK,
                          ![w].output = <<"Infrastructure applied and inventory file created successfully">>]
    /\ UNCHANGED <<obs, files, tmpfiles, handled>>

apply_infrastructure(w) ==
    \/ ReceiveApply(w)
    \/ ApplyRun(w)
    \/ Query(w)
    \/ Sleep(w)
    \/ Exhausted(w)
    \/ InvOpen(w)
    \/ InvWrite(w)
    \/ CredOutput(w)
    \/ CredPem(w)
    \/ SetEnv(w)

\* ------------------------------------------------------------ specifications
\* one server process: its event loop runs one handler at a time
Next ==
    \/ generate_code(MainWorker)
    \/ plan_infrastructure(MainWorker)
    \/ apply_infrastructure(MainWorker)
    \/ configure_database(MainWorker)

Spec == Init /\ [][Next]_vars

\* several server processes, each serving /generate-code
NextWorkers == \E w \in Workers : generate_code(w)
SpecWorkers == Init /\ [][NextWorkers]_vars

\* ------------------------------------------------------------ properties
Finished(w, k) == pc[w] = "done" /\ req[w].kind = k

\* the instances of a response that carry a role, in the response's order
RoleSeq(reservations, role) ==
    LET all == Flatten(reservations)
        RECURSIVE Pick(_)
        Pick(i) == IF i > Len(all) THEN <<>>
                   ELSE IF i \in RoleNames(reservations, role)
                        THEN <<all[i]>> \o Pick(i + 1) ELSE Pick(i + 1)
    IN  Pick(1)

\* the connection string a line stands for: the chunks before the interpreter
\* setting
ConnOf(line) == SubSeq(line, 1, Len(line) - 1)
AddrText(instance) ==
    IF instance.PublicIpAddress = <<>> THEN "None" ELSE instance.PublicIpAddress[1]

\* C1: an apply request whose apply run exits zero and whose queries all return
\* without a primary makes exactly 5 queries and 4 sleeps of 15 units, and ends
\* with the discovery-exhaustion failure (HTTP 500).
C1_ExhaustionAfterFourSleeps ==
    \A w \in Workers :
        (/\ Finished(w, "apply")
         /\ obs[w].outcome = "ok"
         /\ ~obs[w].queryRaised
         /\ ~obs[w].everPrimary)
        => /\ obs[w].queries = 5
           /\ obs[w].sleeps = 4
           /\ obs[w].slept = 4 * 15
           /\ req[w].status = 500
           /\ Contains(req[w].detail, ExhaustedMsg)

\* C2: discovery succeeds at the first query that observes a primary and a
\* replica; if that is query k (1 <= k <= 5), exactly k queries and k - 1 sleeps
\* have happened then and in every later state of the request.
C2_SuccessAtFirstObservation ==
    \A w \in Workers :
        req[w].kind = "apply" =>
            /\ obs[w].everBoth <=> obs[w].succAt # 0
            /\ obs[w].succAt # 0 =>
                /\ obs[w].succAt \in 1..5
                /\ obs[w].queries = obs[w].succAt
                /\ obs[w].sleeps = obs[w].succAt - 1
                /\ obs[w].slept = 15 * (obs[w].succAt - 1)
                /\ HasPrimary(obs[w].succResult) /\ HasReplica(obs[w].succResult)

C2_Witness ==
    \E w \in Workers :
        /\ Finished(w, "apply") /\ req[w].status = 200
        /\ obs[w].succAt = 3 /\ obs[w].queries = 3 /\ obs[w].sleeps = 2

\* C3: a plan, apply or configuration run that exits non-zero with standard
\* error S ends the request with HTTP 500 and a detail containing S, and the
\* request makes no query and does not touch the inventory file.
C3_ToolFailurePropagated ==
    \A w \in Workers :
        (/\ pc[w] = "done"
         /\ req[w].kind \in {"plan", "apply", "configure"}
         /\ obs[w].outcome = "nonzero")
        => /\ req[w].status = 500
           /\ Contains(req[w].detail, obs[w].stderr)
           /\ obs[w].queries = 0
           /\ ~obs[w].invOpened /\ ~obs[w].invWritten
           /\ files[InventoryFile] = obs[w].filesAtStart[InventoryFile]

C3_Witness ==
    \E w \in Workers :
        /\ Finished(w, "apply")
        /\ obs[w].outcome = "nonzero" /\ obs[w].rc = 1
        /\ obs[w].stderr = <<"no credentials">>
        /\ req[w].status = 500
        /\ Contains(req[w].detail, <<"no credentials">>)

\* C4: a configuration run that exceeds the 3600-unit timeout ends with HTTP
\* 500 and exactly the fixed timeout message, not the exception's own text; a
\* non-zero exit ends with a different detail.
C4_TimeoutHasFixedMessage ==
    \A w \in Workers :
        Finished(w, "configure") =>
            /\ obs[w].outcome = "timeout" =>
                /\ req[w].status = 500
                /\ req[w].detail = <<"Ansible playbook execution timed out">>
                /\ req[w].detail # TimeoutExpiredText
            /\ obs[w].outcome = "nonzero" =>
                /\ req[w].status = 500
                /\ req[w].detail # <<"Ansible playbook execution timed out">>

C4_Witness ==
    \E w \in Workers :
        /\ Finished(w, "configure")
        /\ obs[w].outcome = "timeout"
        /\ obs[w].stderr # <<>>
        /\ req[w].detail = TimeoutMsg

\* C5: the inventory is opened only when one single response holds both roles;
\* five responses none of which holds both end in discovery exhaustion with the
\* inventory file untouched, whatever roles they showed between them.
C5_NoAccumulation ==
    \A w \in Workers :
        req[w].kind = "apply" =>
            /\ obs[w].invOpened =>
                HasPrimary(obs[w].succResult) /\ HasReplica(obs[w].succResult)
            /\ (/\ pc[w] = "done"
                /\ obs[w].outcome = "ok"
                /\ ~obs[w].queryRaised
                /\ ~obs[w].everBoth)
               => /\ obs[w].exhausted
                  /\ obs[w].queries = 5
                  /\ req[w].status = 500
                  /\ Contains(req[w].detail, ExhaustedMsg)
                  /\ ~obs[w].invOpened
                  /\ files[InventoryFile] = obs[w].filesAtStart[InventoryFile]

C5_Witness ==
    \E w \in Workers :
        /\ Finished(w, "apply")
        /\ obs[w].everPrimary /\ obs[w].everReplica /\ ~obs[w].everBoth
        /\ obs[w].exhausted /\ req[w].status = 500

\* C6 as stated: an apply request ends with the confirmation or HTTP 500, HTTP
\* 500 only on apply failure or discovery exhaustion, and the confirmation
\* whenever apply exits zero and some query observes both roles.
C6_Only500OnApplyFailureOrExhaustion ==
    \A w \in Workers :
        Finished(w, "apply") =>
            /\ req[w].status \in {200, 500}
            /\ req[w].status = 500 => (obs[w].outcome # "ok" \/ obs[w].exhausted)
            /\ (obs[w].outcome = "ok" /\ obs[w].everBoth) => req[w].status = 200

\* C6 amended: an apply request ends with the confirmation or HTTP 500; HTTP 500
\* exactly on apply failure, discovery exhaustion, a query that raises, an
\* inventory file that cannot be opened, or a failed credential extraction or
\* credential file; with apply exiting zero, both roles observed and none of
\* those failures, the confirmation.
C6_Amended ==
    \A w \in Workers :
        Finished(w, "apply") =>
            /\ req[w].status \in {200, 500}
            /\ req[w].status = 500 <=>
                \/ obs[w].outcome # "ok"
                \/ obs[w].exhausted
                \/ obs[w].queryRaised
                \/ obs[w].invOpenFailed
                \/ obs[w].credFailed
                \/ obs[w].pemFailed
            /\ (/\ obs[w].outcome = "ok" /\ obs[w].everBoth
                /\ ~obs[w].invOpenFailed /\ ~obs[w].credFailed /\ ~obs[w].pemFailed)
               => req[w].status = 200

C6_Witness ==
    \E w \in Workers :
        /\ Finished(w, "apply")
        /\ obs[w].outcome = "ok" /\ obs[w].everBoth
        /\ obs[w].invWritten /\ obs[w].credFailed
        /\ req[w].status = 500

\* C7: once an apply request has written the inventory, the file holds the
\* primary header, one line per primary of the successful response, the replica
\* header, one line per replica of that response, then the shared-variables
\* section; each line's connection string is ubuntu@<address> of its instance;
\* no address seen only in an earlier failed response occurs in it.
C7_InventoryContent ==
    \A w \in Workers :
        (req[w].kind = "apply" /\ obs[w].invWritten) =>
            LET f == files[InventoryFile]
                P == RoleSeq(obs[w].succResult, "postgresprimary")
                R == RoleSeq(obs[w].succResult, "postgresreplica")
                np == Len(P)
                nr == Len(R)
                gone == {i \in {InstP1, InstR1, InstP2, InstR2, InstPR} :
                            /\ i.InstanceId \in obs[w].failedSeen
                            /\ i.InstanceId \notin IdsOf(obs[w].succResult)
                            /\ i.PublicIpAddress # <<>>}
            IN  /\ Len(f) = np + nr + 5
                /\ f[1] = <<"[primary]">>
                /\ \A k \in 1..np : ConnOf(f[1 + k]) = <<"ubuntu", "@", AddrText(P[k])>>
                /\ f[np + 2] = <<"[replica]">>
                /\ \A k \in 1..nr : ConnOf(f[np + 2 + k]) = <<"ubuntu", "@", AddrText(R[k])>>
                /\ SubSeq(f, np + nr + 3, np + nr + 5)
                      = << <<>>, <<"[all:vars]">>, <<"replication_password=rep">> >>
                /\ \A i \in gone : \A k \in 1..Len(f) :
                      ~Contains(f[k], <<i.PublicIpAddress[1]>>)

C7_Witness ==
    \E w \in Workers :
        /\ Finished(w, "apply") /\ req[w].status = 200
        /\ obs[w].succAt >= 2
        /\ Len(RoleSeq(obs[w].succResult, "postgresprimary")) = 1
        /\ Len(RoleSeq(obs[w].succResult, "postgresreplica")) = 2
        /\ "i-p1" \in obs[w].failedSeen
        /\ "i-p1" \notin IdsOf(obs[w].succResult)
        /\ Len(files[InventoryFile]) = 8

\* C8: nothing orders two generate requests served by different processes on
\* main.tf: a request about to open the file is never made to wait, and its
\* write lands in place at offset 0 over whatever the other request has put
\* there since, keeping every chunk beyond its own length.
C8_UnguardedOverwrite ==
    /\ [](\A w \in Workers : pc[w] = "gen_open_tf" => ENABLED GenOpenTf(w))
    /\ [][\A w \in Workers :
            (pc[w] = "gen_write_tf" /\ pc'[w] = "gen_open_ans") =>
                LET text == terraform_config(req[w].config)
                    old == files[TerraformFile]
                IN  files'[TerraformFile] = text \o SubSeq(old, Len(text) + 1, Len(old))]_vars

\* both requests held main.tf open at once, both answered 200, and the file
\* left is the complete rendering of neither
C8_Witness ==
    /\ \A w \in Workers : Finished(w, "generate") /\ req[w].status = 200
    /\ \E w \in Workers : obs[w].raced
    /\ \A w \in Workers : files[TerraformFile] # terraform_config(req[w].config)

AllLackAddress(reservations) ==
    LET all == Flatten(reservations)
    IN  all # <<>> /\ \A i \in 1..Len(all) : all[i].PublicIpAddress = <<>>

C10_EnvSetOnlyOnConfirmedApply ==
    \A w \in Workers :
        /\ env[w] # obs[w].envAtStart =>
            /\ Finished(w, "apply")
            /\ req[w].status = 200
            /\ obs[w].invWritten
            /\ obs[w].credCreated
            /\ env[w] = req[w].private_key_path
            /\ env[w] \in 1..Len(tmpfiles)
            /\ tmpfiles[env[w]] = req[w].private_key_content
        /\ (pc[w] = "done" /\ req[w].status = 500) => env[w] = obs[w].envAtStart
        /\ req[w].kind \in {"generate", "plan", "configure"} => env[w] = obs[w].envAtStart

\* a failing apply request that has overwritten the inventory file and left the
\* variable at the value an earlier apply request gave it
C10_Witness ==
    \E w \in Workers :
        /\ Finished(w, "apply") /\ req[w].status = 500
        /\ obs[w].invWritten /\ obs[w].credFailed
        /\ files[InventoryFile] # obs[w].filesAtStart[InventoryFile]
        /\ env[w] # 0 /\ env[w] = obs[w].envAtStart

====
